---- MODULE Spec2Model ----
(***************************************************************************)
(* A model of include/subprocess/subprocess.hpp: the descriptor hierarchy, *)
(* posix_spawn_file_actions, posix_process and command, together with the  *)
(* part of the operating system they act on (per-process fd tables, pipes, *)
(* child processes and their wait statuses).                               *)
(***************************************************************************)
EXTENDS Integers, Sequences, FiniteSets, TLC

VARIABLES
  desc,    \* the descriptor objects (descriptor::fd_, linked_fd_, ...)
  ptab,    \* the calling process's fd table: fd number -> open file description
  pipes,   \* the OS pipes: pipe id -> bytes buffered in the kernel
  nfiles,  \* number of files the OS has opened for the caller
  kids,    \* the OS child processes: pid -> fd table, state, bytes written, buffer
  procs,   \* the posix_process objects: stdin_fd_, stdout_fd_, stderr_fd_, pid_
  cmds,    \* the command objects: command::processes_
  top,     \* the API call the caller is in
  ex,      \* the caller's position in posix_process::execute
  rd,      \* the caller's position in ovariable_descriptor::close / idescriptor::read
  acts,    \* the posix_spawn_file_actions object of the running execute()
  err,     \* the exception that ended the last API call ("" when none)
  ret,     \* the value the last API call returned
  log      \* history: what the API call in progress (or the last one) did, in order

vars == <<desc, ptab, pipes, nfiles, kids, procs, cmds, top, ex, rd, acts, err, ret, log>>

----------------------------------------------------------------------------
\* Bounds of the model.

MaxFd == 9        \* the caller's fd table holds fds 0..MaxFd (RLIMIT_NOFILE)
PipeCap == 2      \* bytes a kernel pipe buffers
MaxPipes == 3     \* pipes the OS creates
MaxFiles == 3     \* files the OS opens
NCmd == 3         \* command objects constructed (of one posix_process each)
NProc == 2        \* commands among them that are run (the longest pipeline run)
MaxRedirects == 1 \* redirections in a pipeline that is run
MaxBuild == 2     \* redirections in a pipeline that is only composed
MaxMade == 1      \* descriptors (or pipe pairs) user code opens and closes itself
MaxPid == 2       \* child processes spawned
MaxOut == 1       \* bytes a child writes
MaxObjects == 4   \* descriptor objects user code makes to link them

----------------------------------------------------------------------------
\* Program constants.

STDIN_FILENO == 0
STDOUT_FILENO == 1
STDERR_FILENO == 2
closed_fd == 0 - 1

----------------------------------------------------------------------------
\* The operating system: open file descriptions and fd tables.

Fds == 0..MaxFd

NoOfd == [t |-> "none", k |-> 0]
StdOfd(n) == [t |-> "std", k |-> n]
FileOfd(mode, n) == [t |-> IF mode = "r" THEN "fr" ELSE "fw", k |-> n]
PipeR(k) == [t |-> "pr", k |-> k]
PipeW(k) == [t |-> "pw", k |-> k]

Ev(e, a, b, o) == [e |-> e, a |-> a, b |-> b, o |-> o]

Min(S) == CHOOSE x \in S : \A y \in S : x <= y
Max(S) == CHOOSE x \in S : \A y \in S : x >= y

FreeFds(tab) == {f \in Fds : tab[f] = NoOfd}

\* The world the library acts on, as one value, so that calls compose.
World == [desc |-> desc, ptab |-> ptab, pipes |-> pipes, nfiles |-> nfiles, log |-> log]

Res(w, r) == [w |-> w, r |-> r]

\* What the pipes hold once the fd tables are tab (the caller's) and ks (the
\* children's): the OS discards what is in a pipe whose read end nobody holds.
Unread(ps, tab, ks) ==
  [k \in DOMAIN ps |->
     IF \/ \E f \in Fds : tab[f] = PipeR(k)
        \/ \E c \in DOMAIN ks : \E f \in Fds : ks[c].tab[f] = PipeR(k)
     THEN ps[k]
     ELSE <<>>]

\* ::close(fd): EBADF (b = 0) when fd is not an open fd of the caller.
OsClose(w, fd) ==
  IF fd \in Fds /\ w.ptab[fd] # NoOfd
  THEN [w EXCEPT !.ptab[fd] = NoOfd,
                 !.pipes = Unread(@, [w.ptab EXCEPT ![fd] = NoOfd], kids),
                 !.log = Append(@, Ev("os_close", fd, 1, w.ptab[fd]))]
  ELSE [w EXCEPT !.log = Append(@, Ev("os_close", fd, 0, NoOfd))]

\* ::pipe(fd): the two lowest free fds, read end first; EMFILE when fewer than two.
OsPipe(w) ==
  LET free == FreeFds(w.ptab) IN
  IF Cardinality(free) < 2
  THEN Res([w EXCEPT !.log = Append(@, Ev("os_pipe", 0, 0, NoOfd))], <<closed_fd, closed_fd>>)
  ELSE LET r == Min(free)
           x == Min(free \ {r})
           k == Len(w.pipes) + 1
       IN Res([w EXCEPT !.ptab[r] = PipeR(k), !.ptab[x] = PipeW(k),
                        !.pipes = Append(@, <<>>),
                        !.log = Append(@, Ev("os_pipe", r, x, PipeR(k)))],
              <<r, x>>)

\* ::open(path, mode): the lowest free fd; fails when the path cannot be opened
\* (ok = FALSE) or the table is full.
OsOpen(w, mode, ok) ==
  LET free == FreeFds(w.ptab) IN
  IF ~ok \/ free = {}
  THEN Res([w EXCEPT !.log = Append(@, Ev("os_open", closed_fd, 0, NoOfd))], closed_fd)
  ELSE LET f == Min(free)
           n == w.nfiles + 1
       IN Res([w EXCEPT !.ptab[f] = FileOfd(mode, n), !.nfiles = n,
                        !.log = Append(@, Ev("os_open", f, 1, FileOfd(mode, n)))],
              f)

----------------------------------------------------------------------------
\* Descriptors.

std_in == 1
std_out == 2
std_err == 3

nullptr == 0

Descriptor(kind, fd, linked, inner, mode, data) ==
  [kind |-> kind, fd |-> fd, linked |-> linked, inner |-> inner, mode |-> mode, data |-> data]

\* descriptor::closable and its overriders.
closable(w, d) ==
  IF w.desc[d].kind = "std" THEN FALSE ELSE w.desc[d].fd >= 0

\* A close() that forgets to reset fd_.
odescriptor_close_keep(w, d) ==
  IF closable(w, d)
  THEN OsClose(w, w.desc[d].fd)
  ELSE w

\* odescriptor::close and idescriptor::close (the same code).
odescriptor_close(w, d) ==
  IF closable(w, d)
  THEN [OsClose(w, w.desc[d].fd) EXCEPT !.desc[d].fd = closed_fd]
  ELSE w

\* file_descriptor::open.
file_descriptor_open(w, d, ok) ==
  IF w.desc[d].fd > 0
  THEN Res(w, "ok")
  ELSE LET o == OsOpen(w, w.desc[d].mode, ok) IN
       IF o.r >= 0
       THEN Res([o.w EXCEPT !.desc[d].fd = o.r], "ok")
       ELSE Res(o.w, "os_error")

\* opipe_descriptor::open: fd[0] goes to the linked read end, fd[1] to this end.
opipe_descriptor_open(w, d) ==
  IF closable(w, d)
  THEN Res(w, "ok")
  ELSE LET o == OsPipe(w) IN
       IF o.r[1] < 0
       THEN Res(o.w, "os_error")
       ELSE Res([o.w EXCEPT !.desc[w.desc[d].linked].fd = o.r[1],
                            !.desc[d].fd = o.r[2]], "ok")

\* A read end that makes a pipe on every open().
ipipe_descriptor_open_always(w, d) ==
  LET o == OsPipe(w) IN
  IF o.r[1] < 0
  THEN Res(o.w, "os_error")
  ELSE Res([o.w EXCEPT !.desc[d].fd = o.r[1],
                       !.desc[w.desc[d].linked].fd = o.r[2]], "ok")

\* ipipe_descriptor::open: fd[0] goes to this end, fd[1] to the linked write end.
ipipe_descriptor_open(w, d) ==
  IF closable(w, d)
  THEN Res(w, "ok")
  ELSE LET o == OsPipe(w) IN
       IF o.r[1] < 0
       THEN Res(o.w, "os_error")
       ELSE Res([o.w EXCEPT !.desc[d].fd = o.r[1],
                            !.desc[w.desc[d].linked].fd = o.r[2]], "ok")

\* A write that gives up when the pipe is full instead of blocking.
odescriptor_write_drop(w, d, input) ==
  LET fd == w.desc[d].fd
      o == IF fd \in Fds THEN w.ptab[fd] ELSE NoOfd
  IN IF o.t = "pw"
     THEN Res([w EXCEPT !.pipes[o.k] = IF Len(@ \o input) <= PipeCap
                                        THEN @ \o input
                                        ELSE SubSeq(@ \o input, 1, PipeCap)], "ok")
     ELSE Res(w, "ok")

\* odescriptor::write. Nothing is written for an empty input. ::write fails on
\* a fd that is not open for writing; on a file or a standard stream it takes
\* everything; on a pipe it takes what fits, and with bytes left over and
\* nothing reading the pipe the loop's next ::write never returns ("block").
odescriptor_write(w, d, input) ==
  LET fd == w.desc[d].fd
      o == IF fd \in Fds THEN w.ptab[fd] ELSE NoOfd
  IN CASE input = <<>> -> Res(w, "ok")
       [] input # <<>> /\ o.t \in {"none", "fr", "pr"} -> Res(w, "os_error")
       [] input # <<>> /\ o.t \in {"fw", "std"} -> Res(w, "ok")
       [] input # <<>> /\ o.t = "pw" ->
            LET space == PipeCap - Len(w.pipes[o.k]) IN
            IF Len(input) <= space
            THEN Res([w EXCEPT !.pipes[o.k] = @ \o input], "ok")
            ELSE Res([w EXCEPT !.pipes[o.k] = @ \o SubSeq(input, 1, space)], "block")

\* An input buffer whose open() does not write its payload.
ivariable_descriptor_open_nowrite(w, d) ==
  IF closable(w, d)
  THEN Res(w, "ok")
  ELSE LET a == ipipe_descriptor_open(w, d) IN
       IF a.r # "ok"
       THEN a
       ELSE Res(odescriptor_close(a.w, a.w.desc[d].inner), "ok")

\* ivariable_descriptor::open.
ivariable_descriptor_open(w, d) ==
  IF closable(w, d)
  THEN Res(w, "ok")
  ELSE LET a == ipipe_descriptor_open(w, d) IN
       IF a.r # "ok"
       THEN a
       ELSE LET b == odescriptor_write(a.w, a.w.desc[d].inner, a.w.desc[d].data) IN
            IF b.r # "ok"
            THEN b
            ELSE Res(odescriptor_close(b.w, b.w.desc[d].inner), "ok")

\* The virtual call fd->open().
descriptor_open(w, d, ok) ==
  CASE w.desc[d].kind = "std" -> Res(w, "ok")
    [] w.desc[d].kind \in {"ifile", "ofile"} -> file_descriptor_open(w, d, ok)
    [] w.desc[d].kind \in {"opipe", "ovar"} -> opipe_descriptor_open(w, d)
    [] w.desc[d].kind = "ipipe" -> ipipe_descriptor_open(w, d)
    [] w.desc[d].kind = "ivar" -> ivariable_descriptor_open(w, d)

\* An output buffer that drains on every close().
ovariable_descriptor_close_again(w, d) == Res(odescriptor_close(w, d), "read")

\* An output buffer that drains without closing its write end first.
ovariable_descriptor_close_open(w, d) ==
  IF ~closable(w, d)
  THEN Res(w, "ok")
  ELSE Res(w, "read")

\* ovariable_descriptor::close up to its call of read(): the guard and
\* opipe_descriptor::close(). "read" says the caller goes on into read().
ovariable_descriptor_close(w, d) ==
  IF ~closable(w, d)
  THEN Res(w, "ok")
  ELSE Res(odescriptor_close(w, d), "read")

\* The virtual call fd->close().
descriptor_close(w, d) ==
  CASE w.desc[d].kind = "std" -> Res(w, "ok")
    [] w.desc[d].kind = "ovar" -> ovariable_descriptor_close(w, d)
    [] OTHER -> Res(odescriptor_close(w, d), "ok")

\* The processes that hold the write end of pipe k open.
Writers(k) ==
  {0 : f \in {g \in Fds : ptab[g] = PipeW(k)}}
  \cup {c \in DOMAIN kids : \E f \in Fds : kids[c].tab[f] = PipeW(k)}

Readers(k) ==
  {0 : f \in {g \in Fds : ptab[g] = PipeR(k)}}
  \cup {c \in DOMAIN kids : \E f \in Fds : kids[c].tab[f] = PipeR(k)}

----------------------------------------------------------------------------
\* posix_util::posix_spawn_file_actions.

NoActions == [list |-> <<>>, closed_fds |-> {}]

\* posix_spawn_file_actions::dup: posix_spawn_file_actions_adddup2 refuses a
\* negative fd (EBADF), which dup() does not look at.
actions_dup(a, w, d, fd_to) ==
  IF w.desc[d].fd < 0
  THEN a
  ELSE [a EXCEPT !.list = Append(@, [op |-> "dup2", a |-> w.desc[d].fd, b |-> fd_to])]

\* A close() that does not look at closed_fds_.
actions_close_again(a, w, d) ==
  IF closable(w, d)
  THEN [a EXCEPT !.list = Append(@, [op |-> "close", a |-> w.desc[d].fd, b |-> 0]),
                 !.closed_fds = @ \cup {w.desc[d].fd}]
  ELSE a

\* posix_spawn_file_actions::close.
actions_close(a, w, d) ==
  IF closable(w, d) /\ w.desc[d].fd \notin a.closed_fds
  THEN [a EXCEPT !.list = Append(@, [op |-> "close", a |-> w.desc[d].fd, b |-> 0]),
                 !.closed_fds = @ \cup {w.desc[d].fd}]
  ELSE a

\* The child's fd table once the file actions have run, in order, on a copy of
\* the caller's table; "fail" when a dup2 names a fd that is not open.
RECURSIVE ApplyActions(_, _)
ApplyActions(tab, list) ==
  IF list = <<>>
  THEN [ok |-> TRUE, tab |-> tab]
  ELSE LET x == Head(list) IN
       IF x.op = "dup2"
       THEN IF x.a \in Fds /\ tab[x.a] # NoOfd
            THEN ApplyActions([tab EXCEPT ![x.b] = tab[x.a]], Tail(list))
            ELSE [ok |-> FALSE, tab |-> tab]
       ELSE ApplyActions([tab EXCEPT ![x.a] = NoOfd], Tail(list))

----------------------------------------------------------------------------
\* posix_process.

Procs == 1..NCmd

NoEx == [p |-> 0, ip |-> 0, pid |-> 0]
NoRd == [d |-> 0, acc |-> <<>>]
Idle == [op |-> "idle", c |-> 0, ph |-> "", i |-> 0, ws |-> 0]
Blocked == [op |-> "blocked", c |-> 0, ph |-> "", i |-> 0, ws |-> 0]
Crashed == [op |-> "crashed", c |-> 0, ph |-> "", i |-> 0, ws |-> 0]

\* posix_util::shell_expander on a process's command string: ::wordexp gives
\* one word or more, gives no word (an empty string: we_wordv holds only the
\* terminating null), or fails and leaves we_wordv, zero-initialized, null.
\* shell_expander does not look at what ::wordexp returns.
CmdKinds == {"words", "empty", "bad"}
\* Exceptions: the class, code() and, where what() names a process's binary,
\* that process.
NoErr == [kind |-> "", code |-> 0, what |-> 0]
Error(kind, code) == [kind |-> kind, code |-> code, what |-> 0]
ErrorAt(kind, code, what) == [kind |-> kind, code |-> code, what |-> what]

\* Error codes ::posix_spawnp returns: ENOENT, EBADF.
SpawnErrors == {2, 9}

\* An execute() that closes the parent side of stdout before it spawns.
execute_body_early ==
  << "open_in", "dup_in", "open_out", "dup_out", "open_err", "dup_err",
     "aclose_in", "aclose_out", "aclose_err",
     "close_out", "spawn", "pid",
     "close_in", "close_err" >>

\* An execute() that leaves the parent side of stdout open.
execute_body_keep ==
  << "open_in", "dup_in", "open_out", "dup_out", "open_err", "dup_err",
     "aclose_in", "aclose_out", "aclose_err",
     "spawn", "pid",
     "close_in", "close_err" >>

\* The statements of posix_process::execute, in program order.
execute_body ==
  << "open_in", "dup_in", "open_out", "dup_out", "open_err", "dup_err",
     "aclose_in", "aclose_out", "aclose_err",
     "spawn", "pid",
     "close_in", "close_out", "close_err" >>

\* The descriptor a statement of execute() acts on.
Slot(p, s) ==
  CASE s \in {"open_in", "dup_in", "aclose_in", "close_in"} -> procs[p].in
    [] s \in {"open_out", "dup_out", "aclose_out", "close_out"} -> procs[p].out
    [] s \in {"open_err", "dup_err", "aclose_err", "close_err"} -> procs[p].err

Fileno(s) ==
  CASE s = "dup_in" -> STDIN_FILENO
    [] s = "dup_out" -> STDOUT_FILENO
    [] s = "dup_err" -> STDERR_FILENO

SetWorld(w) ==
  /\ desc' = w.desc
  /\ ptab' = w.ptab
  /\ pipes' = w.pipes
  /\ nfiles' = w.nfiles
  /\ log' = w.log

\* The model's bounds on what the OS hands out.
WithinBounds(w) == Len(w.pipes) <= MaxPipes /\ w.nfiles <= MaxFiles

Logged(e) == [World EXCEPT !.log = Append(@, e)]

\* History: an API call from user code starts a new log.
Started(e) == [World EXCEPT !.log = <<e>>]

\* A run that waits for each process as soon as it has executed it: the
\* second loop entered after the first execute().
TopAfterExecute_eager ==
  IF top.op = "execute"
  THEN Idle
  ELSE [top EXCEPT !.ph = "wait", !.i = 1]

\* Where the caller is once execute() has returned: back in the user's code,
\* or at the next process of command::run's first loop (the second loop when
\* that was the last).
TopAfterExecute ==
  IF top.op = "execute"
  THEN Idle
  ELSE IF top.i < Len(cmds[top.c])
       THEN [top EXCEPT !.i = @ + 1]
       ELSE [top EXCEPT !.ph = "wait", !.i = 1]

\* An exception that execute() swallows: it returns as if it had succeeded.
Throw_swallow(e) ==
  /\ top' = TopAfterExecute
  /\ ex' = NoEx
  /\ rd' = NoRd
  /\ acts' = NoActions
  /\ err' = e

\* An exception leaves execute() and, uncaught, command::run.
Throw(e) ==
  /\ top' = Idle
  /\ ex' = NoEx
  /\ rd' = NoRd
  /\ acts' = NoActions
  /\ err' = e

\* WEXITSTATUS.
WEXITSTATUS(ws) == (ws \div 256) % 256

\* The statement of execute() the caller is at ("" when not in execute() or
\* inside a descriptor's close()).
Stmt ==
  IF ex.p # 0 /\ rd.d = 0 /\ top.op \notin {"blocked", "crashed"} /\ ex.ip <= Len(execute_body)
  THEN execute_body[ex.ip]
  ELSE ""

\* The statement is done: on to the next one, or execute() returns (the
\* posix_spawn_file_actions object is destroyed).
StmtDone ==
  IF ex.ip < Len(execute_body)
  THEN /\ ex' = [ex EXCEPT !.ip = @ + 1]
       /\ UNCHANGED <<top, acts>>
  ELSE /\ ex' = NoEx
       /\ top' = TopAfterExecute
       /\ acts' = NoActions

\* process_fds: fd->open().
ExecOpen(ok) ==
  /\ Stmt \in {"open_in", "open_out", "open_err"}
  /\ LET d == Slot(ex.p, Stmt)
         o == descriptor_open(Logged(Ev("open", d, ex.p, NoOfd)), d, ok)
     IN /\ WithinBounds(o.w)
        /\ SetWorld(o.w)
        /\ CASE o.r = "ok" -> StmtDone /\ UNCHANGED <<rd, err>>
             [] o.r = "os_error" -> Throw(Error("os_error", 0))
             [] o.r = "block" -> top' = Blocked /\ UNCHANGED <<ex, rd, acts, err>>
  /\ UNCHANGED <<kids, procs, cmds, ret>>

\* process_fds: action.dup(fd, dup_to).
ExecDup ==
  /\ Stmt \in {"dup_in", "dup_out", "dup_err"}
  /\ LET d == Slot(ex.p, Stmt)
         a == actions_dup(acts, World, d, Fileno(Stmt))
     IN /\ ex' = [ex EXCEPT !.ip = @ + 1]
        /\ acts' = a
        /\ log' = IF a = acts THEN log
                   ELSE Append(log, Ev("adddup2", desc[d].fd, Fileno(Stmt), NoOfd))
  /\ UNCHANGED <<desc, ptab, pipes, nfiles, kids, procs, cmds, top, rd, err, ret>>

\* action.close(fd).
ExecAddClose ==
  /\ Stmt \in {"aclose_in", "aclose_out", "aclose_err"}
  /\ LET d == Slot(ex.p, Stmt)
         a == actions_close(acts, World, d)
     IN /\ ex' = [ex EXCEPT !.ip = @ + 1]
        /\ acts' = a
        /\ log' = IF a = acts THEN log
                   ELSE Append(log, Ev("addclose", desc[d].fd, d, NoOfd))
  /\ UNCHANGED <<desc, ptab, pipes, nfiles, kids, procs, cmds, top, rd, err, ret>>

\* ::posix_spawnp: a child with a copy of the caller's fd table on which the
\* file actions have run. e is what ::posix_spawnp returns: 0, or an error
\* code (the binary cannot be executed, a file action fails); the log keeps
\* it, negated, in place of the pid.
\* When the expansion gave no word, sh.argv()[0] is a null pointer, and when
\* it failed sh.argv() is one: execute() passes a null file name to
\* ::posix_spawnp or dereferences a null pointer. That is undefined: either
\* ::posix_spawnp is entered and returns an error code e, or the program
\* crashes (drawn as e = 0: nothing is returned).
ExecSpawn(e) ==
  /\ Stmt = "spawn"
  /\ Len(kids) < MaxPid
  /\ LET r == ApplyActions(ptab, acts.list)
         pid == Len(kids) + 1
     IN IF procs[ex.p].cmd # "words" /\ e = 0
        THEN /\ top' = Crashed
             /\ log' = Append(log, Ev("crash", 0, ex.p, NoOfd))
             /\ UNCHANGED <<kids, ex, rd, acts, err>>
        ELSE
        IF e = 0
        THEN /\ r.ok
             /\ kids' = Append(kids, [tab |-> r.tab, st |-> "run", nw |-> 0, buf |-> <<>>])
             /\ ex' = [ex EXCEPT !.ip = @ + 1, !.pid = pid]
             /\ log' = Append(log, Ev("spawn", pid, ex.p, NoOfd))
             /\ UNCHANGED <<top, rd, acts, err>>
        ELSE /\ log' = Append(log, Ev("spawn", 0 - e, ex.p, NoOfd))
             /\ Throw(ErrorAt("os_error", e, ex.p))
             /\ UNCHANGED kids
  /\ UNCHANGED <<desc, ptab, pipes, nfiles, procs, cmds, ret>>

\* pid_ = pid.
ExecPid ==
  /\ Stmt = "pid"
  /\ procs' = [procs EXCEPT ![ex.p].pid = ex.pid]
  /\ ex' = [ex EXCEPT !.ip = @ + 1]
  /\ log' = Append(log, Ev("pid", ex.pid, ex.p, NoOfd))
  /\ UNCHANGED <<desc, ptab, pipes, nfiles, kids, cmds, top, rd, acts, err, ret>>

\* stdin_fd_->close(), stdout_fd_->close(), stderr_fd_->close(). An output
\* buffer that was open goes on into read(): the statement is done when
\* read() and the rest of ovariable_descriptor::close are.
ExecClose ==
  /\ Stmt \in {"close_in", "close_out", "close_err"}
  /\ LET d == Slot(ex.p, Stmt)
         o == descriptor_close(Logged(Ev("close", d, ex.p, NoOfd)), d)
     IN /\ SetWorld(o.w)
        /\ IF o.r = "read"
           THEN /\ rd' = [d |-> d, acc |-> <<>>]
                /\ UNCHANGED <<ex, top, acts>>
           ELSE /\ StmtDone
                /\ UNCHANGED rd
  /\ UNCHANGED <<kids, procs, cmds, err, ret>>

----------------------------------------------------------------------------
\* idescriptor::read on the read end an output buffer owns, and the rest of
\* ovariable_descriptor::close.

buf_size == 2048

\* The fd table entry ::read(fd(), ...) acts on.
ReadOfd == 
  LET fd == desc[desc[rd.d].inner].fd IN
  IF fd \in Fds THEN ptab[fd] ELSE NoOfd

\* ::read returned len > 0: output.append(buf.data(), len).
ReadData ==
  /\ rd.d # 0
  /\ top.op \notin {"blocked", "crashed"}
  /\ ReadOfd.t = "pr"
  /\ pipes[ReadOfd.k] # <<>>
  /\ LET k == ReadOfd.k
         len == IF Len(pipes[k]) < buf_size THEN Len(pipes[k]) ELSE buf_size
     IN /\ rd' = [rd EXCEPT !.acc = @ \o SubSeq(pipes[k], 1, len)]
        /\ pipes' = [pipes EXCEPT ![k] = SubSeq(@, len + 1, Len(@))]
  /\ UNCHANGED <<desc, ptab, nfiles, kids, procs, cmds, top, ex, acts, err, ret, log>>

\* What the caller does once ovariable_descriptor::close has returned.
CloseReturned ==
  IF ex.p = 0
  THEN top' = Idle /\ UNCHANGED <<ex, acts>>
  ELSE /\ ex.ip <= Len(execute_body)
       /\ StmtDone

\* The loop of read() is left with len = 0 or len = -1: an os_error is
\* constructed for len < 0 but not thrown, read() returns output, then
\* output_ = ..., input_pipe_.close(), fd_ = -1.
ReadReturn(len) ==
  /\ LET w1 == [Logged(Ev("read_end", rd.d, len, NoOfd)) EXCEPT !.desc[rd.d].data = rd.acc]
         w2 == odescriptor_close(w1, desc[rd.d].inner)
     IN SetWorld([w2 EXCEPT !.desc[rd.d].fd = closed_fd])
  /\ rd' = NoRd
  /\ CloseReturned
  /\ UNCHANGED <<kids, procs, cmds, err, ret>>

\* ::read returned 0 (the pipe is empty and no process holds its write end)
\* or -1 (not a readable fd).
ReadEnd ==
  /\ rd.d # 0
  /\ top.op \notin {"blocked", "crashed"}
  /\ \/ ReadOfd.t # "pr"
     \/ /\ ReadOfd.t = "pr"
        /\ pipes[ReadOfd.k] = <<>>
        /\ Writers(ReadOfd.k) = {}
  /\ ReadReturn(IF ReadOfd.t = "pr" THEN 0 ELSE closed_fd)

\* ::read failed on the open read end (EINTR, EIO, ...): it returned -1,
\* whatever the pipe holds.
ReadFail ==
  /\ rd.d # 0
  /\ top.op \notin {"blocked", "crashed"}
  /\ ReadOfd.t = "pr"
  /\ ReadReturn(closed_fd)

----------------------------------------------------------------------------
\* The children.

Pids == 1..MaxPid

\* Wait statuses: exited with code 0 or 3, or killed by signal 9.
WaitStatuses == {0, 768, 9}

AllClosed == [f \in Fds |-> NoOfd]

\* A child writes one byte to its stdout or stderr when that is a pipe with
\* room (it blocks in ::write when the pipe is full). History: with hist the
\* log of the API call in progress keeps the byte and the pipe end it went to.
ChildPut(c, fd, hist) ==
  /\ c \in DOMAIN kids
  /\ kids[c].st = "run"
  /\ kids[c].nw < MaxOut
  /\ kids[c].tab[fd].t = "pw"
  /\ Len(pipes[kids[c].tab[fd].k]) < PipeCap
  /\ pipes' = [pipes EXCEPT ![kids[c].tab[fd].k] = Append(@, 10 * c + fd)]
  /\ kids' = [kids EXCEPT ![c].nw = @ + 1]
  /\ log' = IF hist
            THEN Append(log, Ev("child_write", 10 * c + fd, c, kids[c].tab[fd]))
            ELSE log
  /\ UNCHANGED <<desc, ptab, nfiles, procs, cmds, top, ex, rd, acts, err, ret>>

ChildWrite(c, fd) == ChildPut(c, fd, FALSE)

\* A child reads what its stdin holds, when that is a pipe.
ChildRead(c) ==
  /\ c \in DOMAIN kids
  /\ kids[c].st = "run"
  /\ kids[c].tab[STDIN_FILENO].t = "pr"
  /\ pipes[kids[c].tab[STDIN_FILENO].k] # <<>>
  /\ pipes' = [pipes EXCEPT ![kids[c].tab[STDIN_FILENO].k] = <<>>]
  /\ UNCHANGED <<desc, ptab, nfiles, kids, procs, cmds, top, ex, rd, acts, err, ret, log>>

\* A child terminates (it exits or a signal kills it): the OS closes its fds
\* and keeps it until it is waited for. Nothing observes its wait status
\* before ::waitpid returns it, so the status is drawn there.
ChildExit(c) ==
  /\ c \in DOMAIN kids
  /\ kids[c].st = "run"
  /\ kids' = [kids EXCEPT ![c] = [tab |-> AllClosed, st |-> "zombie", nw |-> 0, buf |-> <<>>]]
  /\ pipes' = Unread(pipes, ptab, kids')
  /\ UNCHANGED <<desc, ptab, nfiles, procs, cmds, top, ex, rd, acts, err, ret, log>>

\* A child that runs cat. It reads what its stdin holds into its buffer ...
CatRead(c) ==
  /\ c \in DOMAIN kids
  /\ kids[c].st = "run"
  /\ kids[c].buf = <<>>
  /\ kids[c].tab[STDIN_FILENO].t = "pr"
  /\ pipes[kids[c].tab[STDIN_FILENO].k] # <<>>
  /\ kids' = [kids EXCEPT ![c].buf = pipes[kids[c].tab[STDIN_FILENO].k]]
  /\ pipes' = [pipes EXCEPT ![kids[c].tab[STDIN_FILENO].k] = <<>>]
  /\ UNCHANGED <<desc, ptab, nfiles, procs, cmds, top, ex, rd, acts, err, ret, log>>

\* ... writes its buffer to its stdout: what fits when that is a pipe (it
\* blocks in ::write when the pipe is full), all of it on a terminal or a file ...
CatWrite(c) ==
  /\ c \in DOMAIN kids
  /\ kids[c].st = "run"
  /\ kids[c].buf # <<>>
  /\ LET o == kids[c].tab[STDOUT_FILENO] IN
     \/ /\ o.t = "pw"
        /\ Len(pipes[o.k]) < PipeCap
        /\ LET n == Min({Len(kids[c].buf), PipeCap - Len(pipes[o.k])}) IN
           /\ pipes' = [pipes EXCEPT ![o.k] = @ \o SubSeq(kids[c].buf, 1, n)]
           /\ kids' = [kids EXCEPT ![c].buf = SubSeq(@, n + 1, Len(@))]
     \/ /\ o.t \in {"std", "fw"}
        /\ kids' = [kids EXCEPT ![c].buf = <<>>]
        /\ UNCHANGED pipes
  /\ UNCHANGED <<desc, ptab, nfiles, procs, cmds, top, ex, rd, acts, err, ret, log>>

\* ... and exits, with code 0, when it has written all it read and its stdin
\* is at end of file: an empty pipe whose write end nobody holds (or a
\* terminal on which end of file is typed).
CatExit(c) ==
  /\ c \in DOMAIN kids
  /\ kids[c].buf = <<>>
  /\ LET i == kids[c].tab[STDIN_FILENO] IN
     \/ i.t = "pr" /\ pipes[i.k] = <<>> /\ Writers(i.k) = {}
     \/ i.t = "std"
  /\ ChildExit(c)

\* A child that has output to deliver. Once it runs it knows what it will
\* write: up to MaxWrite bytes, all to its stdout or all to its stderr (buf
\* holds the bytes still to be written, a byte naming its stream as in
\* ChildPut; nw = 1 says the output is known) ...
MaxWrite == PipeCap + 1

WorkStart(c) ==
  /\ c \in DOMAIN kids
  /\ kids[c].st = "run"
  /\ kids[c].nw = 0
  /\ \E fd \in {STDOUT_FILENO, STDERR_FILENO}, n \in 0..MaxWrite :
       kids' = [kids EXCEPT ![c].nw = 1, ![c].buf = [i \in 1..n |-> 10 * c + fd]]
  /\ UNCHANGED <<desc, ptab, pipes, nfiles, procs, cmds, top, ex, rd, acts, err, ret, log>>

\* ... writes the next byte: into a pipe with room (it blocks in ::write
\* while the pipe is full), at once on a terminal or a file, and at once,
\* with an error it ignores, on a fd that is not open for writing ...
WorkWrite(c) ==
  /\ c \in DOMAIN kids
  /\ kids[c].st = "run"
  /\ kids[c].buf # <<>>
  /\ LET o == kids[c].tab[Head(kids[c].buf) % 10] IN
     IF o.t = "pw"
     THEN /\ Len(pipes[o.k]) < PipeCap
          /\ pipes' = [pipes EXCEPT ![o.k] = Append(@, Head(kids[c].buf))]
     ELSE UNCHANGED pipes
  /\ kids' = [kids EXCEPT ![c].buf = Tail(@)]
  /\ UNCHANGED <<desc, ptab, nfiles, procs, cmds, top, ex, rd, acts, err, ret, log>>

\* ... and terminates once it has written everything and its stdin is at end
\* of file: an empty pipe whose write end nobody holds, a terminal (end of
\* file is typed), or a fd it cannot read.
WorkExit(c) ==
  /\ c \in DOMAIN kids
  /\ kids[c].nw = 1
  /\ kids[c].buf = <<>>
  /\ LET i == kids[c].tab[STDIN_FILENO] IN
     i.t = "pr" => pipes[i.k] = <<>> /\ Writers(i.k) = {}
  /\ ChildExit(c)

\* The steps of child c; it reads its stdin whenever there is something in it.
Work(c) ==
  \/ WorkStart(c)
  \/ WorkWrite(c)
  \/ ChildRead(c)
  \/ WorkExit(c)

----------------------------------------------------------------------------
\* Constructing descriptors.

\* Input-buffer payloads: empty, one byte, as many bytes as a pipe holds, one
\* byte more than that.
Payloads == {<<>>, <<7>>, [i \in 1..PipeCap |-> 6 + i], [i \in 1..(PipeCap + 1) |-> 6 + i]}

\* make_descriptor<T>(...): the objects a construction adds, the first of
\* them at index n. A buffer descriptor embeds the other end of its pipe
\* (input_pipe_, output_pipe_), whose own linked_fd_ stays null.
NewDescriptor(kind, n, data) ==
  CASE kind = "ifile" -> <<Descriptor("ifile", closed_fd, nullptr, 0, "r", <<>>)>>
    [] kind = "ofile" -> <<Descriptor("ofile", closed_fd, nullptr, 0, "w", <<>>)>>
    [] kind = "ovar" -> <<Descriptor("ovar", closed_fd, n + 1, n + 1, "-", <<>>),
                          Descriptor("ipipe", closed_fd, nullptr, 0, "-", <<>>)>>
    [] kind = "ivar" -> <<Descriptor("ivar", closed_fd, n + 1, n + 1, "-", data),
                          Descriptor("opipe", closed_fd, nullptr, 0, "-", <<>>)>>
    [] kind = "ipipe" -> <<Descriptor("ipipe", closed_fd, n + 1, 0, "-", <<>>),
                           Descriptor("opipe", closed_fd, n, 0, "-", <<>>)>>
    [] kind = "opipe" -> <<Descriptor("opipe", closed_fd, n + 1, 0, "-", <<>>),
                           Descriptor("ipipe", closed_fd, n, 0, "-", <<>>)>>

\* create_pipe: [read_fd, write_fd], linked to each other.
NewPipe(n) == NewDescriptor("ipipe", n, <<>>)

\* make_descriptor<ipipe_descriptor>() or make_descriptor<opipe_descriptor>():
\* a pipe end on its own, linked_fd_{nullptr}.
NewEnd(kind) == <<Descriptor(kind, closed_fd, nullptr, 0, "-", <<>>)>>

\* link(fd1, fd2) on the descriptors ds.
link(ds, fd1, fd2) ==
  IF ds[fd1].linked # nullptr \/ ds[fd2].linked # nullptr
  THEN Res(ds, "usage_error")
  ELSE Res([ds EXCEPT ![fd1].linked = fd2, ![fd2].linked = fd1], "ok")

\* Where the objects live. An address means nothing to the program, so each
\* object gets a fixed one: the three standard descriptors, then per process
\* the descriptors made for its stdin, stdout and stderr (two objects each: a
\* buffer descriptor embeds a pipe end) and the pipe pair made by operator|
\* with the process on its left.
DescIds == 1..(3 + 8 * NCmd)
InDesc(p) == 3 + 8 * (p - 1) + 1
OutDesc(p) == 3 + 8 * (p - 1) + 3
ErrDesc(p) == 3 + 8 * (p - 1) + 5
PipeDesc(p) == 3 + 8 * (p - 1) + 7

\* desc with the objects of new placed at n, n + 1, ...
Placed(new, n) ==
  [d \in DOMAIN desc \cup (n..(n + Len(new) - 1)) |->
     IF d >= n /\ d < n + Len(new) THEN new[d - n + 1] ELSE desc[d]]

\* The descriptors user code can hold a descriptor_ptr to (the embedded pipe
\* ends of the buffer descriptors are private members).
UserDescs ==
  {d \in DOMAIN desc : \A b \in DOMAIN desc : desc[b].inner # d}

\* What the redirection operators make, and what user code can hand to a
\* process itself: those and one end of a pipe pair from create_pipe.
InKinds == {"ifile", "ofile", "ivar"}
OutKinds == {"ofile", "ovar"}
SetterInKinds == InKinds \cup {"ipipe"}
SetterOutKinds == OutKinds \cup {"opipe"}

DataFor(kind) == IF kind = "ivar" THEN Payloads ELSE {<<>>}

\* User code composes before it calls.
Building == top = Idle /\ log = <<>>

----------------------------------------------------------------------------
\* Calls on a descriptor from user code.

UserOpen(d, ok) ==
  /\ top = Idle
  /\ d \in UserDescs
  /\ LET o == descriptor_open(Started(Ev("open", d, 0, NoOfd)), d, ok) IN
     /\ WithinBounds(o.w)
     /\ SetWorld(o.w)
     /\ top' = IF o.r = "block" THEN Blocked ELSE Idle
     /\ err' = IF o.r = "os_error" THEN Error("os_error", 0) ELSE NoErr
  /\ UNCHANGED <<kids, procs, cmds, ex, rd, acts, ret>>

UserClose(d) ==
  /\ top = Idle
  /\ d \in UserDescs
  /\ LET o == descriptor_close(Started(Ev("close", d, 0, NoOfd)), d) IN
     /\ SetWorld(o.w)
     /\ IF o.r = "read"
        THEN /\ rd' = [d |-> d, acc |-> <<>>]
             /\ top' = [Idle EXCEPT !.op = "close"]
        ELSE UNCHANGED <<rd, top>>
  /\ err' = NoErr
  /\ UNCHANGED <<kids, procs, cmds, ex, acts, ret>>

\* write(input) on an output descriptor.
UserWrite(d, input) ==
  /\ top = Idle
  /\ d \in UserDescs
  /\ desc[d].kind \in {"ofile", "opipe", "ovar"}
  /\ LET o == odescriptor_write(Started(Ev("write", d, 0, NoOfd)), d, input) IN
     /\ SetWorld(o.w)
     /\ top' = IF o.r = "block" THEN Blocked ELSE Idle
     /\ err' = IF o.r = "os_error" THEN Error("os_error", 0) ELSE NoErr
  /\ UNCHANGED <<kids, procs, cmds, ex, rd, acts, ret>>

----------------------------------------------------------------------------
\* posix_process: the setters, and execute() and wait() called from user code.

\* in(descriptor_ptr&&), with a descriptor made for it.
ProcIn(p, kind, data) ==
  /\ Building
  /\ procs[p].in = std_in
  /\ desc' = Placed(NewDescriptor(kind, InDesc(p), data), InDesc(p))
  /\ procs' = [procs EXCEPT ![p].in = InDesc(p)]
  /\ UNCHANGED <<ptab, pipes, nfiles, kids, cmds, top, ex, rd, acts, err, ret, log>>

\* out(descriptor_ptr&&), with a descriptor made for it.
ProcOut(p, kind) ==
  /\ Building
  /\ procs[p].out = std_out
  /\ desc' = Placed(NewDescriptor(kind, OutDesc(p), <<>>), OutDesc(p))
  /\ procs' = [procs EXCEPT ![p].out = OutDesc(p)]
  /\ UNCHANGED <<ptab, pipes, nfiles, kids, cmds, top, ex, rd, acts, err, ret, log>>

\* err(descriptor_ptr&&), with a descriptor made for it.
ProcErr(p, kind) ==
  /\ Building
  /\ procs[p].err = std_err
  /\ desc' = Placed(NewDescriptor(kind, ErrDesc(p), <<>>), ErrDesc(p))
  /\ procs' = [procs EXCEPT ![p].err = ErrDesc(p)]
  /\ UNCHANGED <<ptab, pipes, nfiles, kids, cmds, top, ex, rd, acts, err, ret, log>>

\* out(err_t): stdout_fd_ = stderr_fd_.
ProcOutErr(p) ==
  /\ Building
  /\ procs[p].out # procs[p].err
  /\ procs' = [procs EXCEPT ![p].out = procs[p].err]
  /\ UNCHANGED <<desc, ptab, pipes, nfiles, kids, cmds, top, ex, rd, acts, err, ret, log>>

\* err(out_t): stderr_fd_ = stdout_fd_.
ProcErrOut(p) ==
  /\ Building
  /\ procs[p].out # procs[p].err
  /\ procs' = [procs EXCEPT ![p].err = procs[p].out]
  /\ UNCHANGED <<desc, ptab, pipes, nfiles, kids, cmds, top, ex, rd, acts, err, ret, log>>

\* process.execute() is called: shell_expander and posix_spawn_file_actions
\* are constructed.
UserExecute(p) ==
  /\ top = Idle
  /\ top' = [Idle EXCEPT !.op = "execute"]
  /\ ex' = [p |-> p, ip |-> 1, pid |-> 0]
  /\ acts' = NoActions
  /\ err' = NoErr
  /\ log' = <<Ev("execute", p, 0, NoOfd)>>
  /\ UNCHANGED <<desc, ptab, pipes, nfiles, kids, procs, cmds, rd, ret>>

\* ::waitpid does not return while the child runs.
WaitBlocks(p) == procs[p].pid # 0 /\ kids[procs[p].pid].st = "run"

\* posix_process::wait. ::waitpid on a child that terminated reaps it and
\* stores its wait status; on a pid that is no child of the caller (reaped
\* already) it fails with ECHILD and leaves waitstatus at its initial 0.
\* ws is the wait status of the child.
posix_process_wait(p, ws) ==
  LET pid == procs[p].pid IN
  IF pid = 0
  THEN [r |-> "usage_error", status |-> 0, kids |-> kids,
        ev |-> <<Ev("wait", p, 0, NoOfd)>>]
  ELSE IF kids[pid].st = "zombie"
       THEN [r |-> "ok", status |-> WEXITSTATUS(ws),
             kids |-> [kids EXCEPT ![pid].st = "reaped"],
             ev |-> <<Ev("wait", p, pid, NoOfd), Ev("waitpid", pid, ws, NoOfd)>>]
       ELSE [r |-> "ok", status |-> WEXITSTATUS(0), kids |-> kids,
             ev |-> <<Ev("wait", p, pid, NoOfd), Ev("ECHILD", pid, 0, NoOfd)>>]

UserWait(p, ws) ==
  /\ top = Idle
  /\ ~WaitBlocks(p)
  /\ LET o == posix_process_wait(p, ws) IN
     /\ kids' = o.kids
     /\ log' = o.ev
     /\ err' = IF o.r = "ok" THEN NoErr ELSE Error(o.r, 0)
     /\ ret' = IF o.r = "ok" THEN o.status ELSE ret
  /\ UNCHANGED <<desc, ptab, pipes, nfiles, procs, cmds, top, ex, rd, acts>>

----------------------------------------------------------------------------
\* command.

Cmds == 1..NCmd

\* A command whose processes were spliced into another one is moved-from;
\* user code does not use it again.
Usable(c) == cmds[c] # <<>>

Front(c) == Head(cmds[c])
Back(c) == cmds[c][Len(cmds[c])]

\* No process of the command has been spawned.
Fresh(c) == \A i \in 1..Len(cmds[c]) : procs[cmds[c][i]].pid = 0

\* A pipe operator that gives the write end to the first process of the left
\* command.
Pipe_front(a, b) ==
  /\ top = Idle /\ log = <<>>
  /\ a # b
  /\ cmds[a] # <<>>
  /\ cmds[b] # <<>>
  /\ LET back == cmds[a][Len(cmds[a])]
         read_fd == PipeDesc(back)
         write_fd == PipeDesc(back) + 1
     IN /\ desc' = Placed(NewPipe(read_fd), read_fd)
        /\ procs' = [procs EXCEPT ![Head(cmds[b])].in = read_fd, ![Head(cmds[a])].out = write_fd]
        /\ cmds' = [cmds EXCEPT ![a] = cmds[a] \o cmds[b], ![b] = <<>>]
  /\ UNCHANGED <<ptab, pipes, nfiles, kids, top, ex, rd, acts, err, ret, log>>

\* command::operator|(command&& other).
Pipe(a, b) ==
  /\ Building
  /\ a # b
  /\ Usable(a)
  /\ Usable(b)
  /\ LET read_fd == PipeDesc(Back(a))
         write_fd == PipeDesc(Back(a)) + 1
     IN /\ desc' = Placed(NewPipe(read_fd), read_fd)
        /\ procs' = [procs EXCEPT ![Front(b)].in = read_fd, ![Back(a)].out = write_fd]
        /\ cmds' = [cmds EXCEPT ![a] = cmds[a] \o cmds[b], ![b] = <<>>]
  /\ UNCHANGED <<ptab, pipes, nfiles, kids, top, ex, rd, acts, err, ret, log>>

\* operator<(command&, descriptor_ptr), and through it operator< with a
\* string (an ivariable_descriptor) or a path (an ofile_descriptor).
RedirectIn(c, kind, data) ==
  /\ Usable(c)
  /\ ProcIn(Front(c), kind, data)

\* operator>(command&, descriptor_ptr) and operator>>, and through them the
\* forms with a string (an ovariable_descriptor) or a path (an ofile_descriptor).
RedirectOut(c, kind) ==
  /\ Usable(c)
  /\ ProcOut(Back(c), kind)

\* operator>=(command&, descriptor_ptr) and operator>>=, and through them the
\* forms with a string or a path.
RedirectErr(c, kind) ==
  /\ Usable(c)
  /\ ProcErr(Back(c), kind)

\* operator>(command&, err_t).
RedirectOutToErr(c) ==
  /\ Usable(c)
  /\ ProcOutErr(Back(c))

\* operator>=(command&, out_t).
RedirectErrToOut(c) ==
  /\ Usable(c)
  /\ ProcErrOut(Back(c))

\* operator<(command&, std::filesystem::path):
\* cmd < make_descriptor<ofile_descriptor>(file_name.string()).
RedirectInPath(c) == RedirectIn(c, "ofile", <<>>)

\* operator>(command&, std::filesystem::path) and operator>>:
\* cmd > make_descriptor<ofile_descriptor>(file_name.string(), ...).
RedirectOutPath(c) == RedirectOut(c, "ofile")

\* operator>=(command&, std::filesystem::path) and operator>>=:
\* cmd >= make_descriptor<ofile_descriptor>(file_name.string(), ...).
RedirectErrPath(c) == RedirectErr(c, "ofile")

\* command::run() or command::run(std::nothrow) is called. History: the log
\* notes (b = 1) that the command has spawned a process before.
Run(c, op) ==
  /\ top = Idle
  /\ Usable(c)
  /\ top' = [op |-> op, c |-> c, ph |-> "exec", i |-> 1, ws |-> 0]
  /\ err' = NoErr
  /\ log' = <<Ev(op, c, IF Fresh(c) THEN 0 ELSE 1, NoOfd)>>
  /\ UNCHANGED <<desc, ptab, pipes, nfiles, kids, procs, cmds, ex, rd, acts, ret>>

InRun == top.op \in {"run", "run_nothrow"}

\* run(nothrow), first loop: process.execute().
RunExecute ==
  /\ InRun
  /\ top.ph = "exec"
  /\ ex.p = 0
  /\ ex' = [p |-> cmds[top.c][top.i], ip |-> 1, pid |-> 0]
  /\ acts' = NoActions
  /\ log' = Append(log, Ev("execute", cmds[top.c][top.i], top.i, NoOfd))
  /\ UNCHANGED <<desc, ptab, pipes, nfiles, kids, procs, cmds, top, rd, err, ret>>

\* A second loop that keeps the first stage's status: waitstatus is assigned
\* by the first wait() only.
RunWait_first(ws) ==
  /\ top.op \in {"run", "run_nothrow"}
  /\ top.ph = "wait"
  /\ top.i <= Len(cmds[top.c])
  /\ ~WaitBlocks(cmds[top.c][top.i])
  /\ LET o == posix_process_wait(cmds[top.c][top.i], ws) IN
     /\ kids' = o.kids
     /\ log' = log \o o.ev
     /\ IF o.r = "ok"
        THEN /\ top' = [top EXCEPT !.i = @ + 1, !.ws = IF top.i = 1 THEN o.status ELSE @]
             /\ UNCHANGED <<ex, rd, acts, err>>
        ELSE Throw(Error(o.r, 0))
  /\ UNCHANGED <<desc, ptab, pipes, nfiles, procs, cmds, ret>>

\* run(nothrow), second loop: waitstatus = process.wait().
RunWait(ws) ==
  /\ InRun
  /\ top.ph = "wait"
  /\ top.i <= Len(cmds[top.c])
  /\ ~WaitBlocks(cmds[top.c][top.i])
  /\ LET o == posix_process_wait(cmds[top.c][top.i], ws) IN
     /\ kids' = o.kids
     /\ log' = log \o o.ev
     /\ IF o.r = "ok"
        THEN /\ top' = [top EXCEPT !.i = @ + 1, !.ws = o.status]
             /\ UNCHANGED <<ex, rd, acts, err>>
        ELSE Throw(Error(o.r, 0))
  /\ UNCHANGED <<desc, ptab, pipes, nfiles, procs, cmds, ret>>

\* A run() that raises whatever the status is.
RunReturn_always ==
  /\ top.op \in {"run", "run_nothrow"}
  /\ top.ph = "wait"
  /\ top.i > Len(cmds[top.c])
  /\ top' = Idle
  /\ IF top.op = "run"
     THEN /\ err' = Error("command_error", top.ws)
          /\ UNCHANGED ret
     ELSE /\ ret' = top.ws
          /\ UNCHANGED err
  /\ log' = Append(log, Ev("return", top.c, top.ws, NoOfd))
  /\ UNCHANGED <<desc, ptab, pipes, nfiles, kids, procs, cmds, ex, rd, acts>>

\* run(nothrow): return waitstatus; and command::run, which raises a
\* command_error carrying a status that is not 0.
RunReturn ==
  /\ InRun
  /\ top.ph = "wait"
  /\ top.i > Len(cmds[top.c])
  /\ top' = Idle
  /\ IF top.op = "run" /\ top.ws # 0
     THEN /\ err' = Error("command_error", top.ws)
          /\ UNCHANGED ret
     ELSE /\ ret' = top.ws
          /\ UNCHANGED err
  /\ log' = Append(log, Ev("return", top.c, top.ws, NoOfd))
  /\ UNCHANGED <<desc, ptab, pipes, nfiles, kids, procs, cmds, ex, rd, acts>>

----------------------------------------------------------------------------
\* The initial state: the three standard-stream descriptors, NProc commands
\* of one process each, and a caller that has some of fds 0, 1 and 2 open.

\* The caller's fds 0, 1, 2 are all open, or it has closed its stdin, or its
\* stdin and its stdout.
StdStates ==
  {{STDIN_FILENO, STDOUT_FILENO, STDERR_FILENO}, {STDOUT_FILENO, STDERR_FILENO}, {STDERR_FILENO}}

InitOf(S, cmd) ==
  /\ desc = [d \in {std_in, std_out, std_err} |->
               CASE d = std_in -> Descriptor("std", STDIN_FILENO, nullptr, 0, "-", <<>>)
                 [] d = std_out -> Descriptor("std", STDOUT_FILENO, nullptr, 0, "-", <<>>)
                 [] d = std_err -> Descriptor("std", STDERR_FILENO, nullptr, 0, "-", <<>>)]
  /\ ptab = [f \in Fds |-> IF f \in S THEN StdOfd(f) ELSE NoOfd]
  /\ pipes = <<>>
  /\ nfiles = 0
  /\ kids = <<>>
  /\ procs = [p \in Procs |-> [in |-> std_in, out |-> std_out, err |-> std_err, pid |-> 0,
                                cmd |-> cmd[p]]]
  /\ cmds = [c \in Cmds |-> <<c>>]
  /\ top = Idle
  /\ ex = NoEx
  /\ rd = NoRd
  /\ acts = NoActions
  /\ err = NoErr
  /\ ret = 0
  /\ log = <<>>

\* Commands whose strings expand to words.
InitWith(S) == InitOf(S, [p \in Procs |-> "words"])

Init == InitWith({STDIN_FILENO, STDOUT_FILENO, STDERR_FILENO})

\* Any command string for the first process.
InitExpand ==
  \E k \in CmdKinds :
    InitOf({STDIN_FILENO, STDOUT_FILENO, STDERR_FILENO}, [p \in Procs |-> IF p = 1 THEN k ELSE "words"])

InitAny == \E S \in StdStates : InitWith(S)

Execute ==
  \/ \E ok \in BOOLEAN : ExecOpen(ok)
  \/ ExecDup
  \/ ExecAddClose
  \/ \E e \in {0} \cup SpawnErrors : ExecSpawn(e)
  \/ ExecPid
  \/ ExecClose
  \/ ReadData
  \/ ReadEnd

Children ==
  \/ \E c \in Pids, fd \in {STDOUT_FILENO, STDERR_FILENO} : ChildWrite(c, fd)
  \/ \E c \in Pids : ChildRead(c)
  \/ \E c \in Pids : ChildExit(c)

\* The slots that hold a redirection: neither the slot's standard descriptor
\* nor a pipe end made by operator|.
Redirected ==
  {p \in Procs : procs[p].in \notin {std_in} \cup {PipeDesc(q) : q \in Procs}}
  \cup {NCmd + p : p \in {q \in Procs : procs[q].out \notin {std_out} \cup {PipeDesc(r) + 1 : r \in Procs}}}
  \cup {2 * NCmd + p : p \in {q \in Procs : procs[q].err # std_err}}

RunCmds == 1..NProc

Compose(max) ==
  /\ Building
  /\ Cardinality(Redirected) < max
  /\ \/ \E c \in RunCmds, kind \in InKinds : \E data \in DataFor(kind) : RedirectIn(c, kind, data)
     \/ \E c \in RunCmds, kind \in OutKinds : RedirectOut(c, kind)
     \/ \E c \in RunCmds, kind \in OutKinds : RedirectErr(c, kind)
     \/ \E c \in RunCmds : RedirectOutToErr(c)
     \/ \E c \in RunCmds : RedirectErrToOut(c)

\* Pipelines: commands are composed, then run once.
Next ==
  \/ \E a, b \in RunCmds : Pipe(a, b)
  \/ Compose(MaxRedirects)
  \/ \E c \in RunCmds, op \in {"run", "run_nothrow"} : Fresh(c) /\ Run(c, op)
  \/ RunExecute
  \/ \E ws \in WaitStatuses : RunWait(ws)
  \/ RunReturn
  \/ Execute
  \/ Children

Spec == Init /\ [][Next]_vars

\* Descriptors on their own: user code makes one (or a pipe pair), hands it to
\* a process and opens and closes it itself.
Made == {d \in UserDescs : desc[d].kind \notin {"std", "opipe"}}

NextDesc ==
  \/ \E kind \in SetterInKinds : \E data \in DataFor(kind) :
       Cardinality(Made) < MaxMade /\ ProcIn(Cardinality(Made) + 1, kind, data)
  \/ \E kind \in SetterOutKinds :
       Cardinality(Made) < MaxMade /\ ProcOut(Cardinality(Made) + 1, kind)
  \/ \E d \in UserDescs, ok \in BOOLEAN : UserOpen(d, ok)
  \/ \E d \in UserDescs : UserClose(d)
  \/ \E d \in UserDescs : UserWrite(d, <<7>>)
  \/ ReadData
  \/ ReadEnd

SpecDesc == InitAny /\ [][NextDesc]_vars

\* One posix_process object used directly: its slots are set, it is executed
\* once and waited for.
NextProc ==
  \/ \E kind \in SetterInKinds : \E data \in DataFor(kind) : ProcIn(1, kind, data)
  \/ \E kind \in SetterOutKinds : ProcOut(1, kind)
  \/ \E kind \in SetterOutKinds : ProcErr(1, kind)
  \/ ProcOutErr(1)
  \/ ProcErrOut(1)
  \/ procs[1].pid = 0 /\ UserExecute(1)
  \/ \E ws \in WaitStatuses : UserWait(1, ws)
  \/ Execute
  \/ Children

SpecProc == InitAny /\ [][NextProc]_vars

\* Composition on its own, over all commands.
NextBuild ==
  \/ \E a, b \in Cmds : Pipe(a, b)
  \/ /\ Cardinality(Redirected) < MaxBuild
     /\ \/ \E c \in Cmds, kind \in InKinds : \E data \in DataFor(kind) \cap {<<>>, <<7>>} :
             RedirectIn(c, kind, data)
        \/ \E c \in Cmds, kind \in OutKinds : RedirectOut(c, kind)
        \/ \E c \in Cmds, kind \in OutKinds : RedirectErr(c, kind)
        \/ \E c \in Cmds : RedirectOutToErr(c)
        \/ \E c \in Cmds : RedirectErrToOut(c)
        \/ \E c \in Cmds : RedirectInPath(c)
        \/ \E c \in Cmds : RedirectOutPath(c)
        \/ \E c \in Cmds : RedirectErrPath(c)

SpecBuild == Init /\ [][NextBuild]_vars

\* Linking: user code makes pipe ends, pipe pairs and buffer descriptors and
\* calls link on them.
NextObject == Max(DOMAIN desc) + 1

\* make_descriptor<T>(...) for a pipe end or a buffer descriptor.
Make(kind) ==
  /\ top = Idle
  /\ LET new == IF kind \in {"ipipe", "opipe"} THEN NewEnd(kind)
                ELSE NewDescriptor(kind, NextObject, <<>>)
     IN /\ NextObject + Len(new) - 1 <= 3 + MaxObjects
        /\ desc' = Placed(new, NextObject)
  /\ UNCHANGED <<ptab, pipes, nfiles, kids, procs, cmds, top, ex, rd, acts, err, ret, log>>

\* create_pipe(): the two ends are made, then linked.
CreatePipe ==
  /\ top = Idle
  /\ NextObject + 1 <= 3 + MaxObjects
  /\ LET made == Placed(NewEnd("ipipe") \o NewEnd("opipe"), NextObject)
         o == link(made, NextObject, NextObject + 1)
     IN /\ desc' = o.w
        /\ err' = IF o.r = "ok" THEN NoErr ELSE Error(o.r, 0)
        /\ log' = <<Ev("create_pipe", NextObject, NextObject + 1, NoOfd)>>
  /\ UNCHANGED <<ptab, pipes, nfiles, kids, procs, cmds, top, ex, rd, acts, ret>>

\* link(*fd1, *fd2) called by user code: fd1 is an ipipe_descriptor (or an
\* input buffer, which is one), fd2 an opipe_descriptor (or an output buffer).
UserLink(fd1, fd2) ==
  /\ top = Idle
  /\ fd1 \in UserDescs /\ desc[fd1].kind \in {"ipipe", "ivar"}
  /\ fd2 \in UserDescs /\ desc[fd2].kind \in {"opipe", "ovar"}
  /\ LET o == link(desc, fd1, fd2) IN
     /\ desc' = o.w
     /\ err' = IF o.r = "ok" THEN NoErr ELSE Error(o.r, 0)
  /\ log' = <<Ev("link", fd1, fd2, NoOfd)>>
  /\ UNCHANGED <<ptab, pipes, nfiles, kids, procs, cmds, top, ex, rd, acts, ret>>

NextLink ==
  \/ \E kind \in {"ipipe", "opipe", "ivar", "ovar"} : Make(kind)
  \/ CreatePipe
  \/ \E fd1, fd2 \in UserDescs : UserLink(fd1, fd2)

SpecLink == Init /\ [][NextLink]_vars

Cat ==
  \/ \E c \in Pids : CatRead(c)
  \/ \E c \in Pids : CatWrite(c)
  \/ \E c \in Pids : CatExit(c)

\* A one-stage pipeline whose child is cat, with an input buffer of at most
\* PipeCap bytes on its stdin or an output buffer on its stdout or both.
CatPayloads == UNION {[1..n -> {7, 8}] : n \in 0..PipeCap}

NextCat ==
  \/ \E data \in CatPayloads : Building /\ RedirectIn(1, "ivar", data)
  \/ Building /\ RedirectOut(1, "ovar")
  \/ \E op \in {"run", "run_nothrow"} : Fresh(1) /\ Run(1, op)
  \/ RunExecute
  \/ RunWait(0)
  \/ RunReturn
  \/ Execute
  \/ Cat

SpecCat == Init /\ [][NextCat]_vars

\* What the caller's thread does once ::posix_spawnp has returned.
AfterSpawn ==
  \/ ExecPid
  \/ ExecClose
  \/ ReadData
  \/ ReadEnd
  \/ RunWait(0)
  \/ RunReturn

\* From the spawn on the caller's thread runs, and the OS schedules the child.
SpecCatLive == SpecCat /\ WF_vars(AfterSpawn) /\ WF_vars(Cat)

\* One posix_process object, whatever its command string expands to, with
\* descriptors on its stdin and stdout.
NextExpand ==
  \/ \E kind \in SetterInKinds : \E data \in DataFor(kind) \cap {<<>>, <<7>>} : ProcIn(1, kind, data)
  \/ \E kind \in SetterOutKinds : ProcOut(1, kind)
  \/ procs[1].pid = 0 /\ UserExecute(1)
  \/ Execute
  \/ Children

SpecExpand == InitExpand /\ [][NextExpand]_vars

\* One posix_process object with buffers on its slots, and an OS whose ::read
\* can fail.
NextRead ==
  \/ ProcIn(1, "ivar", <<7>>)
  \/ ProcOut(1, "ovar")
  \/ ProcErr(1, "ovar")
  \/ procs[1].pid = 0 /\ UserExecute(1)
  \/ Execute
  \/ ReadFail
  \/ Children

SpecRead == Init /\ [][NextRead]_vars

\* One command of one process, with its redirections, that user code runs
\* again and again.
NextRerun ==
  \/ Compose(MaxRedirects)
  \/ \E op \in {"run", "run_nothrow"} : Run(1, op)
  \/ RunExecute
  \/ \E ws \in WaitStatuses : RunWait(ws)
  \/ RunReturn
  \/ Execute
  \/ Children

SpecRerun == Init /\ [][NextRerun]_vars

\* Pipelines of one or two stages with output buffers on the stdout and the
\* stderr of any stage (two on one stage, or one shared by both streams),
\* whose children's writes are kept in the history.
NextDrain ==
  \/ Pipe(1, 2)
  \/ \E p \in RunCmds : ProcOut(p, "ovar")
  \/ \E p \in RunCmds : ProcErr(p, "ovar")
  \/ \E p \in RunCmds : ProcErrOut(p)
  \/ Fresh(1) /\ Run(1, "run_nothrow")
  \/ RunExecute
  \/ RunWait(0)
  \/ RunReturn
  \/ Execute
  \/ \E c \in Pids, fd \in {STDOUT_FILENO, STDERR_FILENO} : ChildPut(c, fd, TRUE)
  \/ \E c \in Pids : ChildRead(c)
  \/ \E c \in Pids : ChildExit(c)

SpecDrain == Init /\ [][NextDrain]_vars

\* Pipelines of one or two stages with output buffers on the stdout and the
\* stderr of any stage, run with run(nothrow); every child delivers its
\* output and terminates at the end of its input.
NextWork ==
  \/ Pipe(1, 2)
  \/ \E p \in RunCmds : Cardinality(Redirected) < MaxBuild /\ ProcOut(p, "ovar")
  \/ \E p \in RunCmds : Cardinality(Redirected) < MaxBuild /\ ProcErr(p, "ovar")
  \/ Fresh(1) /\ Run(1, "run_nothrow")
  \/ RunExecute
  \/ RunWait(0)
  \/ RunReturn
  \/ Execute
  \/ \E c \in Pids : Work(c)

SpecWork == Init /\ [][NextWork]_vars

\* The caller's thread inside run(nothrow).
Caller ==
  \/ RunExecute
  \/ Execute
  \/ RunWait(0)
  \/ RunReturn

\* The caller's thread runs, and the OS schedules every child.
SpecWorkLive == SpecWork /\ WF_vars(Caller) /\ \A c \in Pids : WF_vars(Work(c))

----------------------------------------------------------------------------
\* Properties of command::run.

\* The log is that of a call of run() or run(nothrow), on command RunCmd.
RunLog == log # <<>> /\ log[1].e \in {"run", "run_nothrow"}
RunCmd == log[1].a
RunList == cmds[RunCmd]

\* The calls of execute() and wait() the run has made, in order.
IsCall(e) == e.e \in {"execute", "wait"}
Calls == SelectSeq(log, IsCall)

\* Where in the log an event is.
Where(e) == {k \in 1..Len(log) : log[k].e = e}

\* The run has returned to its caller.
Returned == RunLog /\ log[Len(log)].e = "return"

\* C1: in run(nothrow) on a pipeline of n processes the calls are
\* execute() on stages 1..n in list order, then wait() on stages 1..n in list
\* order, and the execute() of every stage has returned (its last statement,
\* the close of its stderr descriptor, is done) before the first wait().
C1_RunOrder ==
  RunLog =>
    LET n == Len(RunList) IN
    /\ Len(Calls) <= 2 * n
    /\ \A j \in 1..Len(Calls) :
         IF j <= n
         THEN Calls[j].e = "execute" /\ Calls[j].a = RunList[j]
         ELSE Calls[j].e = "wait" /\ Calls[j].a = RunList[j - n]
    /\ \A k \in Where("wait") :
         /\ ex.p = 0
         /\ \A j \in 1..n :
              \E i \in 1..(k - 1) : log[i] = Ev("close", procs[RunList[j]].err, RunList[j], NoOfd)

\* A run of a two-stage pipeline has returned.
C1_Witness ==
  /\ Returned
  /\ Len(RunList) = 2
  /\ Len(Calls) = 4

\* The wait status ::waitpid stored for the child of process p during the run.
StatusOf(p) == {log[k].b : k \in {i \in Where("waitpid") : log[i].a = procs[p].pid}}

\* The exit code in the wait status of a child that exited.
Exited(ws) == ws % 256 = 0
ExitCode(ws) == ws \div 256

\* C2: run(nothrow) returns the exit code of the last process of the list,
\* whatever the wait statuses of the stages before it.
C2_LastStatus ==
  (Returned /\ log[1].e = "run_nothrow") =>
    \A ws \in StatusOf(RunList[Len(RunList)]) : Exited(ws) => ret = ExitCode(ws)

\* A failing first stage piped into a succeeding last stage: 0 is returned.
C2_Witness ==
  /\ Returned
  /\ log[1].e = "run_nothrow"
  /\ Len(RunList) = 2
  /\ StatusOf(RunList[1]) = {768}
  /\ StatusOf(RunList[2]) = {0}
  /\ ret = 0

\* The status run(nothrow) yielded inside run().
Yielded == log[Len(log)].b

\* C26: when a run has returned, the status its last wait() yielded is 0 only
\* if ::waitpid stored a wait status for the last process and that status is
\* a normal exit with code 0 (so run() returns normally only then); and for
\* a last process that exited normally the status is exactly its exit code.
C26_ZeroIsSuccess ==
  Returned =>
    LET S == StatusOf(RunList[Len(RunList)]) IN
    /\ Yielded = 0 => (S # {} /\ \A ws \in S : Exited(ws) /\ ExitCode(ws) = 0)
    /\ (log[1].e = "run" /\ err = NoErr) =>
         (S # {} /\ \A ws \in S : Exited(ws) /\ ExitCode(ws) = 0)
    /\ \A ws \in S : Exited(ws) => Yielded = ExitCode(ws)

\* C3: run() returns normally, with value 0, exactly when run(nothrow) yields
\* 0; for a status s that is not 0 it raises a command_error whose code is s.
C3_RunThrows ==
  (Returned /\ log[1].e = "run") =>
    IF Yielded = 0
    THEN err = NoErr /\ ret = 0
    ELSE err = Error("command_error", Yielded)

\* run() has raised a command_error that carries the last stage's exit code 3.
C3_Witness ==
  /\ Returned
  /\ log[1].e = "run"
  /\ StatusOf(RunList[Len(RunList)]) = {768}
  /\ err = Error("command_error", 3)

\* The run is that of one process with an input buffer on its stdin and an
\* output buffer on its stdout.
CatRun ==
  /\ RunLog
  /\ Len(RunList) = 1
  /\ desc[procs[RunList[1]].in].kind = "ivar"
  /\ desc[procs[RunList[1]].out].kind = "ovar"

\* The payload of the input buffer and the caller's output string.
CatIn == desc[procs[RunList[1]].in].data
CatOut == desc[procs[RunList[1]].out].data

\* The child has been spawned.
Spawned == \E k \in Where("spawn") : log[k].a > 0

\* C14: a one-stage pipeline whose child is cat, with an input buffer holding
\* a payload P of at most PipeCap bytes on stdin and an output buffer on
\* stdout: once the child is spawned the run returns; and when it has
\* returned, the status is 0 and the caller's output string is exactly P,
\* for every such P, the empty one included.
C14_CatRoundTrip ==
  /\ []((CatRun /\ Returned) => (Yielded = 0 /\ ret = 0 /\ err = NoErr /\ CatOut = CatIn))
  /\ ((CatRun /\ Spawned) ~> Returned)

\* The run has returned with a payload that fills the pipe in the output string.
C14_Witness ==
  /\ CatRun
  /\ Returned
  /\ Len(CatIn) = PipeCap
  /\ CatIn[1] # CatIn[2]
  /\ CatOut = CatIn

\* Where in the list of the command that is run process p is.
StageOf(p) == CHOOSE j \in 1..Len(RunList) : RunList[j] = p

\* C15: when the OS spawn of stage k fails during a run, the run ends there
\* with an OS error that carries the name of stage k's binary and the error
\* code the OS returned; stage k has no PID; exactly stages 1..k have been
\* executed; and no wait has been issued, so the children of the stages
\* before k are still running or unreaped zombies.
C15_SpawnFailure ==
  RunLog =>
    \A k \in Where("spawn") :
      log[k].a <= 0 =>
        LET p == log[k].b IN
        /\ k = Len(log)
        /\ top = Idle
        /\ log[k].a < 0
        /\ err = ErrorAt("os_error", 0 - log[k].a, p)
        /\ procs[p].pid = 0
        /\ Len(Calls) = StageOf(p)
        /\ \A j \in 1..Len(Calls) : Calls[j].e = "execute" /\ Calls[j].a = RunList[j]
        /\ Where("wait") = {} /\ Where("waitpid") = {} /\ Where("ECHILD") = {}
        /\ \A j \in 1..(StageOf(p) - 1) :
             /\ procs[RunList[j]].pid # 0
             /\ kids[procs[RunList[j]].pid].st \in {"run", "zombie"}

\* The spawn of the second stage of a pipeline has failed and the child of
\* the first stage is there.
C15_Witness ==
  /\ RunLog
  /\ Len(RunList) = 2
  /\ log[Len(log)].e = "spawn"
  /\ log[Len(log)].a < 0
  /\ log[Len(log)].b = RunList[2]
  /\ procs[RunList[1]].pid # 0
  /\ err.what = RunList[2]

\* C11: a run() or run(nothrow) on a command that has been run before is
\* rejected with a usage error: the second run opens no descriptor, spawns no
\* process and issues no OS wait.
C11_RerunRejected ==
  (RunLog /\ log[1].b = 1) =>
    /\ Where("open") = {}
    /\ Where("os_open") = {}
    /\ Where("os_pipe") = {}
    /\ Where("spawn") = {}
    /\ Where("waitpid") = {}
    /\ Where("ECHILD") = {}
    /\ top = Idle => err = Error("usage_error", 0)

----------------------------------------------------------------------------
\* Properties of posix_process::execute.

\* The log is that of a call of execute() from user code, on process ExecProc.
ExecLog == log # <<>> /\ log[1].e = "execute"
ExecProc == log[1].a
ExecSlots == <<procs[ExecProc].in, procs[ExecProc].out, procs[ExecProc].err>>

\* What execute() has done so far: the open() and close() calls on the slots'
\* descriptors, the file actions recorded, the spawn call and pid_ = pid.
IsStep(e) == e.e \in {"open", "adddup2", "addclose", "spawn", "pid", "close"}
Steps == SelectSeq(log, IsStep)

\* C16: on a process whose command string fails to expand, or expands to no
\* word, execute() does not invoke the OS spawn primitive and ends by raising
\* an OS error.
C16_ExpansionFailure ==
  (ExecLog /\ procs[ExecProc].cmd # "words") =>
    /\ Where("spawn") = {}
    /\ top # Crashed
    /\ top = Idle => err.kind = "os_error"

\* C17: when ::read fails on the read end of an output buffer during its
\* close(), the call that close() is part of ends there with an OS error: it
\* does not go on as if the captured data were complete.
C17_ReadErrorFatal ==
  \A k \in Where("read_end") :
    log[k].b < 0 =>
      /\ k = Len(log)
      /\ top = Idle
      /\ err.kind = "os_error"

\* The pipe the first ::pipe call of the log made.
FirstPipe == log[Min(Where("os_pipe"))].o.k

\* execute() has called open() on an input buffer on stdin that was not open:
\* open() has called ::pipe.
OpenedInputBuffer ==
  /\ ExecLog
  /\ desc[ExecSlots[1]].kind = "ivar"
  /\ Len(log) >= 3
  /\ log[3].e = "os_pipe"

\* C18: execute() of a process whose stdin is an input buffer with payload P.
\* When P has at most PipeCap bytes, open() returns, and when it has returned
\* the pipe holds exactly P, in order, nobody holds the pipe's write end (the
\* embedded write end reports -1), and fd() is the pipe's read end. When P has
\* more than PipeCap bytes, open() has filled the pipe and never returns:
\* execute() stays at its first statement and no child is ever spawned.
C18_InputBufferOpen ==
  OpenedInputBuffer =>
    LET d == ExecSlots[1]
        P == desc[d].data
    IN IF Len(P) <= PipeCap
       THEN /\ top # Blocked
            /\ (ex.p # 0 /\ ex.ip = 2) =>
                 /\ Cardinality(Where("os_pipe")) = 1
                 /\ desc[d].fd \in Fds
                 /\ ptab[desc[d].fd] = PipeR(FirstPipe)
                 /\ pipes[FirstPipe] = P
                 /\ desc[desc[d].inner].fd = closed_fd
                 /\ Writers(FirstPipe) = {}
       ELSE /\ top = Blocked
            /\ ex.ip = 1
            /\ pipes[FirstPipe] = SubSeq(P, 1, PipeCap)
            /\ Where("spawn") = {}
            /\ kids = <<>>
            /\ procs[ExecProc].pid = 0

\* open() of an input buffer whose payload fills the pipe has returned.
C18_Witness ==
  /\ OpenedInputBuffer
  /\ Len(desc[ExecSlots[1]].data) = PipeCap
  /\ ex.ip = 2
  /\ pipes[FirstPipe] = desc[ExecSlots[1]].data

\* open() of an input buffer whose payload does not fit into the pipe blocks.
C18_Blocks ==
  /\ OpenedInputBuffer
  /\ Len(desc[ExecSlots[1]].data) > PipeCap
  /\ top = Blocked

\* C4: execute() opens and then records the duplicate action for stdin,
\* stdout, stderr in that order; the child-side close actions come after all
\* three; then the spawn call; then the PID is recorded; then close() on the
\* descriptors of stdin, stdout, stderr. No close() of a slot's descriptor
\* comes before the spawn call.
C4_ExecuteOrder ==
  ExecLog =>
    LET A == Cardinality(Where("addclose")) IN
    /\ A <= 3
    /\ Len(Steps) <= 11 + A
    /\ \A j \in 1..Len(Steps) :
         CASE j <= 6 /\ j % 2 = 1 ->
                Steps[j] = Ev("open", ExecSlots[(j + 1) \div 2], ExecProc, NoOfd)
           [] j <= 6 /\ j % 2 = 0 ->
                Steps[j].e = "adddup2" /\ Steps[j].b = (j \div 2) - 1
           [] j > 6 /\ j <= 6 + A -> Steps[j].e = "addclose"
           [] j = 7 + A -> Steps[j].e = "spawn"
           [] j = 8 + A -> Steps[j].e = "pid"
           [] j > 8 + A ->
                Steps[j] = Ev("close", ExecSlots[j - 8 - A], ExecProc, NoOfd)

\* An execute() with child-side close actions has run to its end.
C4_Witness ==
  /\ ExecLog
  /\ top = Idle
  /\ Cardinality(Where("addclose")) >= 2
  /\ Len(Steps) = 11 + Cardinality(Where("addclose"))

\* execute() has returned without raising.
Executed == ExecLog /\ top = Idle /\ err = NoErr

\* The OS closes issued inside the close() calls on descriptor d.
OsCloses(d) ==
  {i \in Where("os_close") :
     \E k \in 1..(i - 1) : /\ log[k].e = "close"
                            /\ log[k].a = d
                            /\ \A j \in (k + 1)..i : log[j].e # "close"}

\* The fd descriptor d held when the spawn call was made: the one of the
\* duplicate action of the last slot that holds d.
FdAtSpawn(d) ==
  LET s == CHOOSE x \in 1..3 : ExecSlots[x] = d /\ \A y \in 1..3 : ExecSlots[y] = d => y <= x
  IN Steps[2 * s].a

\* What fd() of a standard-stream descriptor reports.
StdFileno(d) ==
  CASE d = std_in -> STDIN_FILENO
    [] d = std_out -> STDOUT_FILENO
    [] d = std_err -> STDERR_FILENO

\* C5: when execute() returns without raising, for each slot: a
\* standard-stream descriptor still reports 0, 1 or 2; any other descriptor
\* reports fd() = -1, and the parent-side fd it held at the spawn call (and,
\* for an output buffer, that of its embedded read end) has been closed by
\* exactly one OS close each, all successful and all after the spawn call,
\* also when two slots hold the same descriptor.
C5_ParentCloses ==
  Executed =>
    \A s \in 1..3 :
      LET d == ExecSlots[s] IN
      IF desc[d].kind = "std"
      THEN desc[d].fd = StdFileno(d)
      ELSE /\ desc[d].fd = closed_fd
           /\ Cardinality(OsCloses(d)) = IF desc[d].kind = "ovar" THEN 2 ELSE 1
           /\ \E i \in OsCloses(d) : log[i].a = FdAtSpawn(d)
           /\ \A i \in OsCloses(d) : /\ log[i].b = 1
                                      /\ \A k \in Where("spawn") : k < i
                                      /\ \A j \in OsCloses(d) : log[j].a = log[i].a => j = i

\* execute() has returned with stdout and stderr on one output file and stdin
\* on an input buffer.
C5_Witness ==
  /\ Executed
  /\ ExecSlots[2] = ExecSlots[3]
  /\ desc[ExecSlots[2]].kind = "ofile"
  /\ desc[ExecSlots[1]].kind = "ivar"

\* C23: a call of run(nothrow) is left (it returns, or an exception leaves
\* it), whatever the children write, when the caller's thread runs and every
\* child is scheduled.
C23_RunReturns == (top.op = "run_nothrow") ~> (top = Idle)

\* The same, for pipelines in which no stderr is captured by an output buffer.
C23_NoErrBuffers ==
  (top.op = "run_nothrow" /\ \A p \in Procs : procs[p].err = std_err) ~> (top = Idle)

\* The open file the fd of descriptor d refers to in the caller.
StreamOf(d) == IF desc[d].fd \in Fds THEN ptab[desc[d].fd] ELSE NoOfd

\* C24: right after a spawn, whatever fds the caller had open, the child's fds
\* 0, 1 and 2 are open and are the open files that the process's stdin, stdout
\* and stderr descriptors refer to in the caller.
C24_ChildStreams ==
  (Stmt = "pid" /\ kids[ex.pid].st = "run") =>
    /\ kids[ex.pid].tab[STDIN_FILENO] # NoOfd
    /\ kids[ex.pid].tab[STDOUT_FILENO] # NoOfd
    /\ kids[ex.pid].tab[STDERR_FILENO] # NoOfd
    /\ kids[ex.pid].tab[STDIN_FILENO] = StreamOf(procs[ex.p].in)
    /\ kids[ex.pid].tab[STDOUT_FILENO] = StreamOf(procs[ex.p].out)
    /\ kids[ex.pid].tab[STDERR_FILENO] = StreamOf(procs[ex.p].err)

\* C25: every fd the caller has open, other than the standard streams it
\* started with, is the current fd() of some descriptor.
C25_NoLeak ==
  \A f \in Fds :
    ptab[f].t \notin {"none", "std"} => \E d \in DOMAIN desc : desc[d].fd = f

\* The close() call that the drain ending at position j of the log is part of.
CloseOf(j) == Max({i \in Where("close") : i < j /\ log[i].a = log[j].a})

\* The bytes the children wrote to the write end of pipe k, in order.
WrittenTo(k) ==
  LET T(e) == e.e = "child_write" /\ e.o = PipeW(k)
      sel == SelectSeq(log, T)
  IN [i \in 1..Len(sel) |-> sel[i].a]

\* The process whose execute() made the close() call at position c has been
\* spawned before the call, and the call's first act was a successful OS
\* close of the write end of pipe k.
DrainReady(c, k) ==
  /\ \E i \in Where("spawn") : i < c /\ log[i].b = log[c].b /\ log[i].a > 0
  /\ log[c].a \in {procs[log[c].b].out, procs[log[c].b].err}
  /\ c + 1 <= Len(log)
  /\ log[c + 1].e = "os_close" /\ log[c + 1].b = 1 /\ log[c + 1].o = PipeW(k)

\* C21: in a run, while an output buffer is being drained its owning process
\* has been spawned, the parent has closed its copy of the buffer's write end
\* and holds it no more, and what has been read plus what the pipe holds is
\* what the child wrote to the stream. A drain that has ended ended at end of
\* file, closed the read end, and left in the caller's string exactly the
\* bytes the child wrote to the stream, all written before the drain ended.
C21_Drain ==
  RunLog =>
    /\ rd.d # 0 =>
         LET c == Max({i \in Where("close") : log[i].a = rd.d})
             k == ReadOfd.k
         IN /\ ReadOfd.t = "pr"
            /\ DrainReady(c, k)
            /\ \A f \in Fds : ptab[f] # PipeW(k)
            /\ rd.acc \o pipes[k] = WrittenTo(k)
    /\ \A j \in Where("read_end") :
         LET c == CloseOf(j)
             k == log[c + 1].o.k
         IN /\ DrainReady(c, k)
            /\ \A i \in (c + 2)..(j - 1) : log[i].e = "child_write"
            /\ log[j].b = 0
            /\ log[j + 1].e = "os_close" /\ log[j + 1].b = 1 /\ log[j + 1].o = PipeR(k)
            /\ desc[log[j].a].data = WrittenTo(k)
            /\ \A i \in Where("child_write") : log[i].o = PipeW(k) => i < j

\* A run has returned in which the first of two stages had an output buffer
\* that captured a byte its child wrote.
C21_Witness ==
  /\ Returned
  /\ Len(RunList) = 2
  /\ \E j \in Where("read_end") :
       /\ log[CloseOf(j)].b = RunList[1]
       /\ desc[log[j].a].data # <<>>

\* The close actions in the action list of the running execute().
CloseActions == {i \in 1..Len(acts.list) : acts.list[i].op = "close"}

\* The close actions execute() has recorded for descriptor d.
AddCloses(d) == {i \in Where("addclose") : log[i].b = d}

\* stdout and stderr of the process are one descriptor, not a standard one.
Aliased == ExecSlots[2] = ExecSlots[3] /\ desc[ExecSlots[2]].kind # "std"

\* C20: the action list execute() builds has at most one close action per fd
\* number, and none recorded for a standard-stream descriptor. When stdout
\* and stderr are one descriptor, exactly one close action is recorded for it
\* by the time of the spawn call, and when execute() has returned the two
\* close() calls on it have issued one OS close, a successful one, on that fd.
C20_CloseActions ==
  ExecLog =>
    /\ \A i, j \in CloseActions : acts.list[i].a = acts.list[j].a => i = j
    /\ \A i, j \in Where("addclose") : log[i].a = log[j].a => i = j
    /\ \A i \in Where("addclose") :
         /\ \E s \in 1..3 : ExecSlots[s] = log[i].b
         /\ desc[log[i].b].kind # "std"
    /\ (Aliased /\ Where("spawn") # {}) => Cardinality(AddCloses(ExecSlots[2])) = 1
    /\ (Aliased /\ Executed) =>
         \A i \in AddCloses(ExecSlots[2]) :
           /\ Cardinality({k \in OsCloses(ExecSlots[2]) : log[k].a = log[i].a}) = 1
           /\ \A k \in OsCloses(ExecSlots[2]) : log[k].b = 1

\* execute() has returned on a process whose stdout and stderr are one output
\* buffer.
C20_Witness ==
  /\ Executed
  /\ Aliased
  /\ desc[ExecSlots[2]].kind = "ovar"
  /\ Cardinality(AddCloses(ExecSlots[2])) = 1

----------------------------------------------------------------------------
\* Properties of pipelines.

\* The child spawned for process p (known to execute() one statement before
\* pid_ holds it).
StagePid(p) == IF ex.p = p /\ ex.pid # 0 THEN ex.pid ELSE procs[p].pid

\* C6: in a pipeline, once the child of stage i+1 has been spawned, its stdin
\* is the read end of a pipe whose write end no process but the child of stage
\* i holds: not the parent, not the child of stage i+1 or of any other stage.
\* So once stage i has terminated nobody holds the write end, which is when a
\* read of the drained pipe returns EOF.
C6_WriteEndHolders ==
  \A c \in Cmds : \A i \in 1..(Len(cmds[c]) - 1) :
    LET a == StagePid(cmds[c][i])
        b == StagePid(cmds[c][i + 1])
    IN (b # 0 /\ kids[b].st = "run") =>
         /\ a # 0
         /\ kids[b].tab[STDIN_FILENO].t = "pr"
         /\ Writers(kids[b].tab[STDIN_FILENO].k) \subseteq {a}
         /\ kids[a].st = "run" => kids[a].tab[STDOUT_FILENO] = PipeW(kids[b].tab[STDIN_FILENO].k)
         /\ kids[a].st # "run" => Writers(kids[b].tab[STDIN_FILENO].k) = {}

\* Stage 2 runs, stage 1 has terminated, and nobody holds the write end of the
\* pipe stage 2 reads.
C6_Witness ==
  \E c \in Cmds :
    /\ Len(cmds[c]) = 2
    /\ StagePid(cmds[c][1]) # 0
    /\ StagePid(cmds[c][2]) # 0
    /\ kids[StagePid(cmds[c][1])].st = "zombie"
    /\ kids[StagePid(cmds[c][2])].st = "run"
    /\ kids[StagePid(cmds[c][2])].tab[STDIN_FILENO].t = "pr"
    /\ Writers(kids[StagePid(cmds[c][2])].tab[STDIN_FILENO].k) = {}

\* C22: once every execute() of a run has returned, for each two adjacent
\* stages whose children both run, the pipe between them has its read end open
\* in the child of stage i+1 only, as fd 0 and no other fd, and its write end
\* open in the child of stage i only, as fd 1 and no other fd: the parent and
\* the other children hold neither end.
C22_PipeEnds ==
  (RunLog /\ InRun /\ top.ph = "wait") =>
    \A i \in 1..(Len(RunList) - 1) :
      LET a == procs[RunList[i]].pid
          b == procs[RunList[i + 1]].pid
      IN (kids[a].st = "run" /\ kids[b].st = "run") =>
           \E k \in 1..Len(pipes) :
             /\ Readers(k) = {b}
             /\ Writers(k) = {a}
             /\ \A f \in Fds : kids[b].tab[f] = PipeR(k) <=> f = STDIN_FILENO
             /\ \A f \in Fds : kids[a].tab[f] = PipeW(k) <=> f = STDOUT_FILENO

\* C7: whatever pipes, redirections and aliasings have been composed, every
\* two adjacent processes of a command's list are joined by one linked pipe
\* pair, the left one's stdout being its write end and the right one's stdin
\* its read end, and the pair is the one made by the operator| whose left
\* operand ended in the left process: the list runs left to right.
C7_Adjacent ==
  \A c \in Cmds : \A i \in 1..(Len(cmds[c]) - 1) :
    LET o == procs[cmds[c][i]].out
        n == procs[cmds[c][i + 1]].in
    IN /\ desc[o].kind = "opipe"
       /\ desc[n].kind = "ipipe"
       /\ desc[o].linked = n
       /\ desc[n].linked = o
       /\ n = PipeDesc(cmds[c][i])
       /\ \A j \in 1..Len(cmds[c]) : cmds[c][j] = cmds[c][i] => j = i

\* A pipeline of three stages, nested to the left, with a redirection.
C7_Witness ==
  \E c \in Cmds :
    /\ Len(cmds[c]) = 3
    /\ cmds[c][1] = c
    /\ Redirected # {}

\* C13: a redirection that takes a file path binds to the slot a descriptor
\* whose access direction is the slot's: read-only for stdin, write-only for
\* stdout and for stderr.
C13_PathDirection ==
  [][\A c \in Cmds :
       /\ RedirectInPath(c) => desc'[procs'[Front(c)].in].mode = "r"
       /\ RedirectOutPath(c) => desc'[procs'[Back(c)].out].mode = "w"
       /\ RedirectErrPath(c) => desc'[procs'[Back(c)].err].mode = "w"]_vars

----------------------------------------------------------------------------
\* Properties of the descriptors.

\* C8: open() on a descriptor that is open (it holds a fd, whichever the OS
\* gave it, 0 included) opens no file and no pipe and leaves fd() as it is.
C8_OpenIdempotent ==
  [][\A d \in UserDescs : \A ok \in BOOLEAN :
       (desc[d].fd >= 0 /\ UserOpen(d, ok)) =>
          /\ desc'[d].fd = desc[d].fd
          /\ Len(pipes') = Len(pipes)
          /\ nfiles' = nfiles]_vars

\* The read ends of the linked pipe pairs user code holds.
PairReadEnds ==
  {r \in UserDescs : /\ desc[r].kind = "ipipe"
                     /\ desc[r].linked \in UserDescs
                     /\ desc[desc[r].linked].kind = "opipe"
                     /\ desc[desc[r].linked].linked = r}

\* C19: open() on either end of a linked pipe pair. When neither end is open
\* it makes one OS pipe and gives the pipe's read fd to the read end and its
\* write fd to the write end; when both ends are open (no close() has been
\* called since) it does nothing: a sequence of open() calls on the two ends,
\* in any order, makes exactly one OS pipe.
C19_PairOpen ==
  [][\A r \in PairReadEnds : \A d \in {r, desc[r].linked} : \A ok \in BOOLEAN :
       UserOpen(d, ok) =>
         LET x == desc[r].linked IN
         CASE desc[r].fd < 0 /\ desc[x].fd < 0 ->
                /\ err' = NoErr
                /\ Len(pipes') = Len(pipes) + 1
                /\ Cardinality(Where("os_pipe")') = 1
                /\ desc'[r].fd \in Fds /\ ptab'[desc'[r].fd] = PipeR(Len(pipes'))
                /\ desc'[x].fd \in Fds /\ ptab'[desc'[x].fd] = PipeW(Len(pipes'))
                /\ \A f \in Fds \ {desc'[r].fd, desc'[x].fd} : ptab'[f] = ptab[f]
           [] desc[r].fd >= 0 /\ desc[x].fd >= 0 ->
                /\ err' = NoErr
                /\ desc' = desc
                /\ ptab' = ptab
                /\ pipes' = pipes
                /\ log' = <<Ev("open", d, 0, NoOfd)>>
           [] OTHER -> TRUE]_vars

\* An open() on the write end of a pair that was open has returned: the one
\* OS pipe is the pair's.
C19_Witness ==
  \E r \in PairReadEnds :
    /\ log = <<Ev("open", desc[r].linked, 0, NoOfd)>>
    /\ top = Idle
    /\ Len(pipes) = 1
    /\ desc[r].fd \in Fds /\ ptab[desc[r].fd] = PipeR(1)
    /\ desc[desc[r].linked].fd \in Fds /\ ptab[desc[desc[r].linked].fd] = PipeW(1)

\* Inside a close() called from user code every OS close succeeds and no fd
\* is closed twice.
CloseOnce ==
  (log # <<>> /\ log[1].e = "close") =>
    \A i, j \in Where("os_close") : log[i].b = 1 /\ (log[i].a = log[j].a => i = j)

\* C9: a close() that follows a close() of the same descriptor changes
\* nothing: it issues no OS close, fd() stays -1 and an output buffer is not
\* drained again, so its captured string stays; and the close() before it
\* issued one OS close per owned fd.
C9_CloseIdempotent ==
  [][/\ CloseOnce'
     /\ \A d \in UserDescs :
          (log # <<>> /\ log[1] = Ev("close", d, 0, NoOfd) /\ UserClose(d)) =>
             /\ desc' = desc
             /\ desc[d].kind # "std" => desc'[d].fd = closed_fd
             /\ ptab' = ptab
             /\ pipes' = pipes
             /\ nfiles' = nfiles
             /\ top' = Idle
             /\ log' = <<Ev("close", d, 0, NoOfd)>>]_vars

\* A close() that did nothing has returned, on an output buffer that holds
\* what it captured.
C9_Witness ==
  \E d \in UserDescs :
    /\ top = Idle
    /\ log = <<Ev("close", d, 0, NoOfd)>>
    /\ desc[d].kind = "ovar"
    /\ desc[d].fd = closed_fd
    /\ desc[d].data # <<>>

\* link succeeds exactly when both ends are unlinked, and then makes each the
\* other's partner; otherwise it raises a usage error and changes no link.
C12_LinkOneShot ==
  [][\A fd1, fd2 \in UserDescs :
       UserLink(fd1, fd2) =>
          IF desc[fd1].linked = nullptr /\ desc[fd2].linked = nullptr
          THEN /\ err' = NoErr
               /\ desc'[fd1].linked = fd2
               /\ desc'[fd2].linked = fd1
               /\ \A d \in DOMAIN desc \ {fd1, fd2} : desc'[d] = desc[d]
          ELSE /\ err' = Error("usage_error", 0)
               /\ desc' = desc]_vars

\* C12: link succeeds only on two unlinked ends and fails, changing nothing,
\* on a linked one (a buffer descriptor is linked from its construction); so
\* every linked endpoint has one partner, and the partner of its partner is
\* the endpoint itself.
C12_Partners ==
  \A d \in DOMAIN desc :
    desc[d].linked # nullptr =>
      /\ desc[d].linked \in DOMAIN desc
      /\ desc[desc[d].linked].linked = d

----------------------------------------------------------------------------
\* Properties of posix_process::wait.

\* C10: wait() is accepted, issuing the OS wait and returning a status, when
\* execute() has succeeded on the process (it holds a PID) and its child has
\* not been reaped by a wait() before; otherwise it raises a usage error and
\* issues no OS wait.
C10_WaitOnce ==
  [][\A p \in Procs : \A ws \in WaitStatuses :
       UserWait(p, ws) =>
          IF procs[p].pid # 0 /\ kids[procs[p].pid].st # "reaped"
          THEN err' = NoErr /\ Where("waitpid")' # {}
          ELSE /\ err' = Error("usage_error", 0)
               /\ Where("waitpid")' = {}
               /\ Where("ECHILD")' = {}]_vars

====
